---- MODULE Spec2Model ----
(***************************************************************************)
(* Story AI Studio, services/api: the session routes (routes/session.py),  *)
(* the StoryEngine (services/story_engine.py) and the Session,             *)
(* SessionPlayer and StoryEvent tables (models/session.py).                *)
(*                                                                         *)
(* Every HTTP request runs in its own AsyncSession (core/database.py,      *)
(* get_db): what a handler read before an `await` is a private snapshot,   *)
(* and its commit writes only the columns it assigned.  A handler whose    *)
(* decision depends on what it read is therefore modelled as a task with   *)
(* one step per await that matters; the database variables hold committed  *)
(* rows only.                                                              *)
(***************************************************************************)
EXTENDS Integers, Sequences, FiniteSets, TLC

VARIABLES
    sess,         \* sessions table: id -> row (state "absent" before INSERT, "deleted" after DELETE)
    players,      \* session_players table, in insertion order
    events,       \* story_events table, in insertion order
    tasks,        \* requests in flight: the handler's position and what it has read
    now,          \* the clock read by datetime.now() and by the server default now()
    ai_provider,  \* whether settings.openai_api_key is set (create_from_settings returns a provider)
    resp,         \* the response of the handler that finished last
    stories,      \* stories table: id -> "live" or "deleted"
    completion,   \* the provider on its own: the backend's answer to a completion request
    generated     \* the provider on its own: the GenerationResult made of it, None before

vars == <<sess, players, events, tasks, now, ai_provider, resp, stories, completion, generated>>

(* The state of the provider taken on its own (specification SpecProvider): *)
(* the session routes leave it alone                                        *)
provider == <<completion, generated>>

db == <<sess, players, events>>

----------------------------------------------------------------------------
(* Bounds of the model *)

NumTasks == 2
MaxTime == 6
MaxPlayersInput == 2
MaxLineLen == 4
MaxLines == 4

(* Program constants *)

NULL == 0
Unset == 0
DefaultMaxPlayers == 4
DefaultCount == 0

(* Python's None, and a value that is present: an optional value is a       *)
(* sequence of at most one element.  A str is the sequence of its            *)
(* characters.                                                               *)
None == << >>

Some(x) == <<x>>

(* The action texts the model's players submit (SessionActionRequest.action) *)
ActionTexts == {<<"g", "o">>}

Users == {"u1", "u2"}

FreeTierCredits == 25
DefaultCredits == 0

(* The users table.  No route changes the credit columns: u1 is a user as   *)
(* AuthService registers one, u2 a row with the columns' defaults.          *)
users ==
    [u \in Users |->
        [subscription_tier |-> "free",
         monthly_credits |-> IF u = "u1" THEN FreeTierCredits ELSE DefaultCredits,
         credits_used |-> 0]]

(* User.remaining_credits, User.has_credits *)
remaining_credits(u) ==
    IF users[u].monthly_credits - users[u].credits_used > 0
    THEN users[u].monthly_credits - users[u].credits_used ELSE 0

has_credits(u, amount) ==
    IF users[u].subscription_tier = "pro" THEN TRUE
    ELSE remaining_credits(u) >= amount
Hosts == {"u1"}
SessionIds == {"s1"}
StoryIds == {"st1"}
Authors == {"u1"}
Tasks == 1..NumTasks
Statuses == {"waiting", "active", "paused", "completed", "archived"}
LifecycleOps == {"start", "pause", "resume", "end"}
UpdateStatusInput == {"unset", "waiting", "archived"}

----------------------------------------------------------------------------
(* Rows *)

(* current_state = {}: no scene, not started *)
EmptyState == [scene |-> None, started |-> FALSE]

AbsentRow ==
    [state |-> "absent", story_id |-> "st1", status |-> "waiting", host_id |-> "u1",
     max_players |-> DefaultMaxPlayers, turn_count |-> DefaultCount,
     event_count |-> DefaultCount, started_at |-> NULL, ended_at |-> NULL,
     last_activity_at |-> NULL, current_state |-> EmptyState]

IdleTask ==
    [op |-> "none", user |-> "u1", sid |-> "s1", pc |-> "idle",
     turn_count |-> DefaultCount, event_count |-> DefaultCount, action |-> << >>,
     story_id |-> "st1"]

NoResp == [op |-> "none", user |-> "none", sid |-> "none", code |-> 0, narrative |-> None]

(* The previous response has gone out *)
Ready == resp = NoResp

(* A request is taken by the first free worker: which one is immaterial *)
FreeSlot(t) ==
    /\ tasks[t].pc = "idle"
    /\ \A t2 \in Tasks : t2 < t => tasks[t2].pc # "idle"

Live(s) == sess[s].state = "live"

PlayersOf(s) == SelectSeq(players, LAMBDA p : p.session_id = s)

EventsOf(s) == SelectSeq(events, LAMBDA e : e.session_id = s)

Membership(s, u) == SelectSeq(players, LAMBDA p : p.session_id = s /\ p.user_id = u)

Reply(op, u, s, code) ==
    resp' = [op |-> op, user |-> u, sid |-> s, code |-> code, narrative |-> None]

(* SessionActionResponse(success=True, narrative=...) *)
ReplyNarrative(u, s, narrative) ==
    resp' = [op |-> "action", user |-> u, sid |-> s, code |-> 200,
             narrative |-> narrative]

----------------------------------------------------------------------------
(* Texts (str): sequences of characters, and the str methods the parser     *)
(* uses                                                                     *)

SpeakerLimit == 50

Whitespace == {" ", "\t", "\r", "\n"}

RECURSIVE SkipLeft(_, _, _)
SkipLeft(text, chars, i) ==
    IF i <= Len(text) /\ text[i] \in chars THEN SkipLeft(text, chars, i + 1) ELSE i

RECURSIVE SkipRight(_, _, _)
SkipRight(text, chars, j) ==
    IF j >= 1 /\ text[j] \in chars THEN SkipRight(text, chars, j - 1) ELSE j

(* str.strip(chars) *)
StripChars(text, chars) ==
    SubSeq(text, SkipLeft(text, chars, 1), SkipRight(text, chars, Len(text)))

(* str.strip() *)
Strip(text) == StripChars(text, Whitespace)

(* str.startswith(prefix), str.endswith(suffix) *)
StartsWith(text, prefix) ==
    Len(text) >= Len(prefix) /\ SubSeq(text, 1, Len(prefix)) = prefix

EndsWith(text, suffix) ==
    /\ Len(text) >= Len(suffix)
    /\ SubSeq(text, Len(text) - Len(suffix) + 1, Len(text)) = suffix

(* c in text *)
Contains(text, c) == \E i \in 1..Len(text) : text[i] = c

(* text.split(c, 1) of a text that contains c *)
SplitOnce(text, c) ==
    LET i == CHOOSE k \in 1..Len(text) :
                 text[k] = c /\ \A j \in 1..(k - 1) : text[j] # c
    IN  <<SubSeq(text, 1, i - 1), SubSeq(text, i + 1, Len(text))>>

(* text.split("\n"), from position start on *)
RECURSIVE SplitFrom(_, _)
SplitFrom(text, start) ==
    LET rest == {i \in start..Len(text) : text[i] = "\n"}
    IN  IF rest = {} THEN <<SubSeq(text, start, Len(text))>>
        ELSE LET i == CHOOSE k \in rest : \A j \in rest : k <= j
             IN  <<SubSeq(text, start, i - 1)>> \o SplitFrom(text, i + 1)

SplitLines(text) == SplitFrom(text, 1)

(* " ".join(lines) *)
RECURSIVE JoinFrom(_, _)
JoinFrom(lines, i) ==
    IF i > Len(lines) THEN << >>
    ELSE IF i = Len(lines) THEN lines[i]
    ELSE lines[i] \o <<" ">> \o JoinFrom(lines, i + 1)

Join(lines) == JoinFrom(lines, 1)

(* Optional that keeps an empty list as a value *)
Optional_KeepEmpty(list) == Some(list)

(* x if x else None, for a list x *)
Optional(list) == IF list = << >> THEN None ELSE Some(list)

----------------------------------------------------------------------------
(* OpenAIProvider._parse_response *)

(* The dialogue test with the speaker limit inclusive (<= 50) *)
IsDialogue_LimitInclusive(line) ==
    /\ Contains(line, ":")
    /\ ~StartsWith(line, <<"\"">>)
    /\ LET parts == SplitOnce(line, ":")
           speaker == Strip(parts[1])
           text == Strip(parts[2])
       IN  speaker # << >> /\ text # << >> /\ Len(speaker) <= SpeakerLimit

(* The first test of the loop: "Name: dialogue" *)
IsDialogue(line) ==
    /\ Contains(line, ":")
    /\ ~StartsWith(line, <<"\"">>)
    /\ LET parts == SplitOnce(line, ":")
           speaker == Strip(parts[1])
           text == Strip(parts[2])
       IN  speaker # << >> /\ text # << >> /\ Len(speaker) < SpeakerLimit

DialogueOf(line) ==
    LET parts == SplitOnce(line, ":")
    IN  [speaker |-> Strip(parts[1]),
         text |-> StripChars(Strip(parts[2]), {"\""})]

IsBracketed(line) == StartsWith(line, <<"[">>) /\ EndsWith(line, <<"]">>)

IsBullet(line) == StartsWith(line, <<"-", " ">>) \/ StartsWith(line, <<"*", " ">>)

(* The loop over the lines: dialogue is tested first, then the bracketed    *)
(* action, then the bullet; what is left is narration.                      *)
RECURSIVE ParseLines(_, _, _, _, _)
ParseLines(lines, i, dialogue, actions, narration_lines) ==
    IF i > Len(lines)
    THEN [narration |-> IF narration_lines # << >> THEN Some(Join(narration_lines))
                        ELSE None,
          dialogue |-> Optional(dialogue),
          actions |-> Optional(actions)]
    ELSE LET line == Strip(lines[i])
         IN  IF line = << >>
             THEN ParseLines(lines, i + 1, dialogue, actions, narration_lines)
             ELSE IF IsDialogue(line)
             THEN ParseLines(lines, i + 1, Append(dialogue, DialogueOf(line)),
                             actions, narration_lines)
             ELSE IF IsBracketed(line)
             THEN LET action == Strip(SubSeq(line, 2, Len(line) - 1))
                  IN  ParseLines(lines, i + 1, dialogue,
                                 IF action # << >> THEN Append(actions, action)
                                 ELSE actions,
                                 narration_lines)
             ELSE IF IsBullet(line)
             THEN ParseLines(lines, i + 1, dialogue,
                             Append(actions, SubSeq(line, 3, Len(line))),
                             narration_lines)
             ELSE ParseLines(lines, i + 1, dialogue, actions,
                             Append(narration_lines, line))

parse_response(content) == ParseLines(SplitLines(content), 1, << >>, << >>, << >>)

----------------------------------------------------------------------------
(* OpenAIProvider.generate *)

DefaultModel == "gpt-4o"

SceneLimit == 500

Repeat(c, n) == [i \in 1..n |-> c]

(* What the backend answers a turn with: choice.message.content (None when  *)
(* the completion carries no text) and usage.total_tokens                   *)
TurnResponses ==
    { [content |-> Some(<<"[", "g", "o", "]", "\n", "A", ":", " ", "\"", "h", "i", "\"", "\n", "O", "k", ".">>), total_tokens |-> 7] }

AllTurnResponses ==
    TurnResponses \cup { [content |-> None, total_tokens |-> 3] }

(* What the backend answers the opening prompt with: a text with a          *)
(* narration line; a text without one; a text of more than SceneLimit       *)
(* characters without one                                                   *)
OpeningResponses ==
    { [content |-> Some(<<"[", "g", "o", "]", "\n", "D", "a", "w", "n", ".">>), total_tokens |-> 5] }

AllOpeningResponses ==
    OpeningResponses \cup
    { [content |-> Some(<<"[", "g", "o", "]">>), total_tokens |-> 4],
      [content |-> Some(<<"[">> \o Repeat("a", SceneLimit) \o <<"]">>),
       total_tokens |-> 9] }

NoResponse == [content |-> None, total_tokens |-> 0]

(* The GenerationResult generate builds from the backend's response *)
generate(response) ==
    LET content == IF response.content = None THEN << >> ELSE response.content[1]
        parsed == parse_response(content)
    IN  [content |-> content,
         tokens_used |-> response.total_tokens,
         model |-> DefaultModel,
         narration |-> parsed.narration,
         dialogue |-> parsed.dialogue,
         actions |-> parsed.actions]

(* The outcomes of a generation call: an exception (None: timeout, backend  *)
(* error) or a result                                                       *)
TurnOutcomes == {None} \cup {Some(generate(r)) : r \in TurnResponses}

OpeningOutcomes == {None} \cup {Some(generate(r)) : r \in OpeningResponses}

AllTurnOutcomes == {None} \cup {Some(generate(r)) : r \in AllTurnResponses}

AllOpeningOutcomes == {None} \cup {Some(generate(r)) : r \in AllOpeningResponses}

(* if x: for an optional text or list x *)
NonEmpty(x) == x # None /\ x[1] # << >>

(* x or y, for an optional text x and a text y *)
TextOr(x, y) == IF x # None /\ x[1] # << >> THEN x[1] ELSE y

----------------------------------------------------------------------------
Init ==
    /\ sess = [s \in SessionIds |-> AbsentRow]
    /\ players = << >>
    /\ events = << >>
    /\ tasks = [t \in Tasks |-> IdleTask]
    /\ now = 1
    /\ ai_provider \in BOOLEAN
    /\ resp = NoResp
    /\ stories = [st \in StoryIds |-> "live"]
    /\ completion = NoResponse
    /\ generated = None

(* uuid4 hands out an id no row and no request in flight holds *)
FreshId(s) ==
    /\ sess[s].state = "absent"
    /\ \A t \in Tasks : ~(tasks[t].op = "start_story" /\ tasks[t].sid = s)

(* host_player with the role of a joining player *)
host_player_AsPlayer(s, u) ==
    [session_id |-> s, user_id |-> u, role |-> "player", left_at |-> NULL]

(* The SessionPlayer row create_session adds for the host *)
host_player(s, u) ==
    [session_id |-> s, user_id |-> u, role |-> "host", left_at |-> NULL]

(* POST /sessions *)
create_session(u, s, st, mp) ==
    /\ Ready
    /\ FreshId(s)
    /\ IF stories[st] # "live"
       THEN Reply("create", u, s, 404) /\ UNCHANGED <<sess, players, now>>
       ELSE /\ now < MaxTime
            /\ sess' = [sess EXCEPT ![s] =
                  [state |-> "live", story_id |-> st, status |-> "waiting",
                   host_id |-> u, max_players |-> mp, turn_count |-> DefaultCount,
                   event_count |-> DefaultCount, started_at |-> NULL,
                   ended_at |-> NULL, last_activity_at |-> now,
                   current_state |-> EmptyState]]
            /\ players' = Append(players, host_player(s, u))
            /\ now' = now + 1
            /\ Reply("create", u, s, 201)
    /\ UNCHANGED <<events, tasks, ai_provider, stories, provider>>

(* is_host that also lets a participant of the session through *)
is_host_OrMember(s, u) ==
    \/ sess[s].host_id = u
    \/ Len(Membership(s, u)) > 0

(* session.host_id == current_user.id: the host check of the update, delete *)
(* and lifecycle routes                                                     *)
is_host(s, u) == sess[s].host_id = u

(* SourceStates with the check of start_session loosened to let a paused   *)
(* session start again                                                      *)
SourceStates_StartFromPaused(op) ==
    CASE op = "start"  -> {"waiting", "paused"}
      [] op = "pause"  -> {"active"}
      [] op = "resume" -> {"paused"}
      [] op = "end"    -> {"active", "paused"}

(* The status a lifecycle route requires before it acts *)
SourceStates(op) ==
    CASE op = "start"  -> {"waiting"}
      [] op = "pause"  -> {"active"}
      [] op = "resume" -> {"paused"}
      [] op = "end"    -> {"active", "paused"}

(* ApplyTransition that writes the whole row back with fresh counters *)
ApplyTransition_ResetsCounters(row, op, time) ==
    CASE op = "start"  -> [row EXCEPT !.status = "active", !.started_at = time,
                                      !.turn_count = DefaultCount,
                                      !.event_count = DefaultCount]
      [] op = "pause"  -> [row EXCEPT !.status = "paused", !.turn_count = DefaultCount,
                                      !.event_count = DefaultCount]
      [] op = "resume" -> [row EXCEPT !.status = "active", !.turn_count = DefaultCount,
                                      !.event_count = DefaultCount]
      [] op = "end"    -> [row EXCEPT !.status = "completed", !.ended_at = time,
                                      !.turn_count = DefaultCount,
                                      !.event_count = DefaultCount]

(* The assignments a lifecycle route makes before its commit *)
ApplyTransition(row, op, time) ==
    CASE op = "start"  -> [row EXCEPT !.status = "active", !.started_at = time]
      [] op = "pause"  -> [row EXCEPT !.status = "paused"]
      [] op = "resume" -> [row EXCEPT !.status = "active"]
      [] op = "end"    -> [row EXCEPT !.status = "completed", !.ended_at = time]

(* start_session / pause_session / resume_session / end_session up to the   *)
(* commit: SELECT the session, then the 404, 403 and 400 checks.            *)
LifecycleBegin(t, u, s, op) ==
    /\ Ready
    /\ FreeSlot(t)
    /\ IF ~Live(s) THEN Reply(op, u, s, 404) /\ UNCHANGED tasks
       ELSE IF ~is_host(s, u) THEN Reply(op, u, s, 403) /\ UNCHANGED tasks
       ELSE IF sess[s].status \notin SourceStates(op)
            THEN Reply(op, u, s, 400) /\ UNCHANGED tasks
       ELSE /\ tasks' = [tasks EXCEPT ![t] =
                    [IdleTask EXCEPT !.op = op, !.user = u, !.sid = s,
                                     !.pc = "commit"]]
            /\ UNCHANGED resp
    /\ UNCHANGED <<db, now, ai_provider, stories, provider>>

(* The commit of a lifecycle route: UPDATE of the assigned columns.  A row  *)
(* deleted in the meantime makes the UPDATE match nothing and the request   *)
(* fail.                                                                    *)
LifecycleCommit(t) ==
    /\ Ready
    /\ tasks[t].pc = "commit"
    /\ tasks[t].op \in LifecycleOps
    /\ now < MaxTime
    /\ LET s == tasks[t].sid
           u == tasks[t].user
           op == tasks[t].op
       IN  IF Live(s)
           THEN /\ sess' = [sess EXCEPT ![s] = ApplyTransition(@, op, now)]
                /\ now' = now + 1
                /\ Reply(op, u, s, 200)
           ELSE /\ Reply(op, u, s, 500)
                /\ UNCHANGED <<sess, now>>
    /\ tasks' = [tasks EXCEPT ![t] = IdleTask]
    /\ UNCHANGED <<players, events, ai_provider, stories, provider>>

start_session(t, u, s) == LifecycleBegin(t, u, s, "start")

pause_session(t, u, s) == LifecycleBegin(t, u, s, "pause")

resume_session(t, u, s) == LifecycleBegin(t, u, s, "resume")

end_session(t, u, s) == LifecycleBegin(t, u, s, "end")

(* PATCH /sessions/{id}: every field set in the request is assigned, the    *)
(* status among them (exclude_unset leaves the others alone: Unset and      *)
(* "unset" stand for a field the request does not carry).  The checks read  *)
(* only host_id, which never changes.                                       *)
update_session(u, s, mp, st) ==
    /\ Ready
    /\ IF ~Live(s) THEN Reply("update", u, s, 404) /\ UNCHANGED <<sess, now>>
       ELSE IF ~is_host(s, u)
            THEN Reply("update", u, s, 403) /\ UNCHANGED <<sess, now>>
       ELSE /\ now < MaxTime
            /\ sess' = [sess EXCEPT
                          ![s].max_players = IF mp # Unset THEN mp ELSE @,
                          ![s].status = IF st # "unset" THEN st ELSE @]
            /\ now' = now + 1
            /\ Reply("update", u, s, 200)
    /\ UNCHANGED <<players, events, tasks, ai_provider, stories, provider>>

(* DELETE /sessions/{id}: the players and events go with the session        *)
delete_session(u, s) ==
    /\ Ready
    /\ IF ~Live(s) THEN Reply("delete", u, s, 404) /\ UNCHANGED <<db, now>>
       ELSE IF ~is_host(s, u)
            THEN Reply("delete", u, s, 403) /\ UNCHANGED <<db, now>>
       ELSE /\ now < MaxTime
            /\ sess' = [sess EXCEPT ![s].state = "deleted"]
            /\ players' = SelectSeq(players, LAMBDA p : p.session_id # s)
            /\ events' = SelectSeq(events, LAMBDA e : e.session_id # s)
            /\ now' = now + 1
            /\ Reply("delete", u, s, 204)
    /\ UNCHANGED <<tasks, ai_provider, stories, provider>>

(* DELETE /stories/{id} (routes/story.py).  sessions.story_id is declared    *)
(* ON DELETE CASCADE: where the database enforces foreign keys the sessions *)
(* of the story go with it, and their players and events with them; SQLite  *)
(* as the engine is configured does not, and the sessions stay.             *)
delete_story(u, st, fk_enforced) ==
    /\ Ready
    /\ IF stories[st] # "live"
       THEN Reply("delete_story", u, "none", 404) /\ UNCHANGED <<db, now, stories>>
       ELSE IF u \notin Authors
            THEN Reply("delete_story", u, "none", 403) /\ UNCHANGED <<db, now, stories>>
       ELSE /\ now < MaxTime
            /\ stories' = [stories EXCEPT ![st] = "deleted"]
            /\ LET gone == IF fk_enforced
                           THEN {s \in SessionIds : Live(s) /\ sess[s].story_id = st}
                           ELSE {}
               IN  /\ sess' = [s \in SessionIds |->
                                 IF s \in gone THEN [sess[s] EXCEPT !.state = "deleted"]
                                 ELSE sess[s]]
                   /\ players' = SelectSeq(players, LAMBDA p : p.session_id \notin gone)
                   /\ events' = SelectSeq(events, LAMBDA e : e.session_id \notin gone)
            /\ now' = now + 1
            /\ Reply("delete_story", u, "none", 204)
    /\ UNCHANGED <<tasks, ai_provider, provider>>

(* is_joinable with the capacity check off by one *)
is_joinable_OffByOne(s) ==
    /\ sess[s].status \in {"waiting", "active"}
    /\ Len(PlayersOf(s)) <= sess[s].max_players

(* Session.is_joinable *)
is_joinable(s) ==
    /\ sess[s].status \in {"waiting", "active"}
    /\ Len(PlayersOf(s)) < sess[s].max_players

(* join_session up to the commit.  scalar_one_or_none raises when the user  *)
(* has more than one row in the session.                                    *)
JoinBegin(t, u, s) ==
    /\ Ready
    /\ FreeSlot(t)
    /\ IF ~Live(s) THEN Reply("join", u, s, 404) /\ UNCHANGED tasks
       ELSE IF ~is_joinable(s) THEN Reply("join", u, s, 400) /\ UNCHANGED tasks
       ELSE IF Len(Membership(s, u)) > 1 THEN Reply("join", u, s, 500) /\ UNCHANGED tasks
       ELSE IF Len(Membership(s, u)) = 1 THEN Reply("join", u, s, 400) /\ UNCHANGED tasks
       ELSE /\ tasks' = [tasks EXCEPT ![t] =
                    [IdleTask EXCEPT !.op = "join", !.user = u, !.sid = s,
                                     !.pc = "commit"]]
            /\ UNCHANGED resp
    /\ UNCHANGED <<db, now, ai_provider, stories, provider>>

(* The commit of join_session: INSERT of the SessionPlayer row.  When the   *)
(* session was deleted in the meantime the INSERT fails where foreign keys  *)
(* are enforced; the row of a deleted session is never read again.          *)
JoinCommit(t) ==
    /\ Ready
    /\ tasks[t].pc = "commit"
    /\ tasks[t].op = "join"
    /\ now < MaxTime
    /\ LET s == tasks[t].sid
           u == tasks[t].user
       IN  IF Live(s)
           THEN /\ players' = Append(players,
                      [session_id |-> s, user_id |-> u, role |-> "player",
                       left_at |-> NULL])
                /\ now' = now + 1
                /\ Reply("join", u, s, 200)
           ELSE /\ Reply("join", u, s, 500)
                /\ UNCHANGED <<players, now>>
    /\ tasks' = [tasks EXCEPT ![t] = IdleTask]
    /\ UNCHANGED <<sess, events, ai_provider, stories, provider>>

join_session(t, u, s) == JoinBegin(t, u, s)

(* POST /sessions/{id}/leave: sets left_at on the caller's row              *)
leave_session(u, s) ==
    /\ Ready
    /\ IF Len(Membership(s, u)) = 0
       THEN Reply("leave", u, s, 404) /\ UNCHANGED <<players, now>>
       ELSE IF Len(Membership(s, u)) > 1
            THEN Reply("leave", u, s, 500) /\ UNCHANGED <<players, now>>
       ELSE IF Membership(s, u)[1].role = "host"
            THEN Reply("leave", u, s, 400) /\ UNCHANGED <<players, now>>
       ELSE /\ now < MaxTime
            /\ players' = [i \in 1..Len(players) |->
                              IF players[i].session_id = s /\ players[i].user_id = u
                              THEN [players[i] EXCEPT !.left_at = now]
                              ELSE players[i]]
            /\ now' = now + 1
            /\ Reply("leave", u, s, 204)
    /\ UNCHANGED <<sess, events, tasks, ai_provider, stories, provider>>

(* The columns of story_events the model keeps, with the value a row gets   *)
(* for a column the constructor call does not name                          *)
StoryEventDefaults ==
    [session_id |-> "none", event_type |-> "none", player_id |-> "none",
     content |-> << >>, event_metadata |-> None, is_ai_generated |-> FALSE,
     ai_model |-> "none", tokens_used |-> 0, created_at |-> NULL]

(* A StoryEvent built from keywords, as INSERTed: the constructor sets       *)
(* each keyword as an attribute of the object; only the mapped columns are  *)
(* written, and created_at is the server default now().                     *)
StoryEvent(kwargs, time) ==
    [c \in DOMAIN StoryEventDefaults |->
        IF c = "created_at" THEN time
        ELSE IF c \in DOMAIN kwargs THEN kwargs[c]
        ELSE StoryEventDefaults[c]]

(* The rows process_player_action adds: the player's action, then the       *)
(* narration.  created_at is the server default now() of one INSERT batch.  *)
TurnEvents(s, u, action, result, time) ==
    << StoryEvent([session_id |-> s, player_id |-> u, event_type |-> "action",
                   content |-> action, is_ai_generated |-> FALSE], time),
       StoryEvent([session_id |-> s, event_type |-> "narration",
                   content |-> result.content, is_ai_generated |-> TRUE,
                   ai_model |-> result.model, tokens_used |-> result.tokens_used,
                   metadata |-> Some([narration |-> result.narration,
                                      dialogue |-> result.dialogue,
                                      actions |-> result.actions])], time) >>

(* The row the fallback of perform_action adds *)
FallbackEvents(s, u, action, time) ==
    << StoryEvent([session_id |-> s, player_id |-> u, event_type |-> "action",
                   content |-> action, event_metadata |-> Some(<< >>),
                   is_ai_generated |-> FALSE], time) >>

(* f"You {data.action}. The story continues..." *)
PlaceholderNarrative(action) ==
    <<"Y", "o", "u", " ">> \o action \o <<".", " ", "T", "h", "e", " ", "s", "t", "o", "r", "y", " ", "c", "o", "n", "t", "i", "n", "u", "e", "s", ".", ".", ".">>

(* The counters process_player_action assigns: the values it read, plus 1   *)
(* and plus 2.  It leaves last_activity_at alone.                           *)
TurnCounters(row, read, time) ==
    [row EXCEPT !.turn_count = read.turn_count + 1,
                !.event_count = read.event_count + 2]

(* The columns the fallback of perform_action assigns *)
FallbackCounters(row, read, time) ==
    [row EXCEPT !.turn_count = read.turn_count + 1,
                !.event_count = read.event_count + 1,
                !.last_activity_at = time]

(* The stories and characters tables as far as the context reads them: no  *)
(* route of the model changes a title, a world_config or a character        *)
StoryRows ==
    [st \in StoryIds |->
        [title |-> <<"T", "a", "l", "e">>,
         world_config |-> [setting |-> Some(<<"f", "a", "n", "t", "a", "s", "y">>),
                           themes |-> Some(<<<<"w", "a", "r">>, <<"h", "o", "p", "e">>>>),
                           tone |-> None]]]

characters ==
    << [story_id |-> "st1", name |-> <<"A", "n", "n">>, title |-> Some(<<"S", "a", "g", "e">>)] >>

RecentLimit == 10
PromptEvents == 5
ContentLimit == 200
SummaryLimit == 100

(* text[:n] *)
Prefix(text, n) == SubSeq(text, 1, IF Len(text) < n THEN Len(text) ELSE n)

(* list[-n:] *)
Last(list, n) == SubSeq(list, IF Len(list) > n THEN Len(list) - n + 1 ELSE 1, Len(list))

(* reversed(list) *)
Reversed(list) == [i \in 1..Len(list) |-> list[Len(list) - i + 1]]

(* sep.join(lines) *)
RECURSIVE JoinWith(_, _, _)
JoinWith(lines, sep, i) ==
    IF i > Len(lines) THEN << >>
    ELSE IF i = Len(lines) THEN lines[i]
    ELSE lines[i] \o sep \o JoinWith(lines, sep, i + 1)

(* The orders in which a database may return rows that an ORDER BY leaves   *)
(* tied                                                                     *)
RECURSIVE TieOrders(_)
TieOrders(S) ==
    IF S = {} THEN {<< >>}
    ELSE UNION {{<<x>> \o p : p \in TieOrders(S \ {x})} : x \in S}

(* ORDER BY created_at DESC over the rows with index in S: the latest rows  *)
(* first, rows of equal created_at in any order                             *)
RECURSIVE OrderByCreatedAtDesc(_, _)
OrderByCreatedAtDesc(rows, S) ==
    IF S = {} THEN {<< >>}
    ELSE LET latest == {i \in S : \A j \in S : rows[j].created_at <= rows[i].created_at}
         IN  {p \o q : p \in TieOrders(latest),
                       q \in OrderByCreatedAtDesc(rows, S \ latest)}

(* The results the SELECT of the recent events can return:                  *)
(* WHERE session_id = s ORDER BY created_at DESC LIMIT 10                   *)
SelectRecentEvents(s) ==
    LET rows == EventsOf(s)
    IN  {[k \in 1..(IF Len(o) < RecentLimit THEN Len(o) ELSE RecentLimit) |-> rows[o[k]]] :
            o \in OrderByCreatedAtDesc(rows, DOMAIN rows)}

(* StoryEngine._event_to_dict *)
event_to_dict(event) ==
    [type |-> event.event_type,
     content |-> Prefix(event.content, ContentLimit),
     summary |-> Prefix(event.content, SummaryLimit)]

(* StoryEngine._character_to_dict *)
character_to_dict(character) == [name |-> character.name, title |-> character.title]

DefaultScene == <<"T", "h", "e", " ", "a", "d", "v", "e", "n", "t", "u", "r", "e", " ", "b", "e", "g", "i", "n", "s", ".", ".", ".">>

(* StoryEngine.get_session_context, given the rows its SELECT of the recent *)
(* events returned: None when the session or its story is missing, else the *)
(* StoryContext                                                             *)
get_session_context(s, rows) ==
    IF ~Live(s) THEN None
    ELSE IF stories[sess[s].story_id] # "live" THEN None
    ELSE Some([story_id |-> sess[s].story_id,
               story_title |-> StoryRows[sess[s].story_id].title,
               world_config |-> StoryRows[sess[s].story_id].world_config,
               current_scene |-> IF sess[s].current_state.scene # None
                                 THEN sess[s].current_state.scene[1]
                                 ELSE DefaultScene,
               active_characters |->
                   LET cs == SelectSeq(characters,
                                       LAMBDA c : c.story_id = sess[s].story_id)
                   IN  [i \in 1..Len(cs) |-> character_to_dict(cs[i])],
               recent_events |->
                   LET rs == Reversed(rows)
                   IN  [i \in 1..Len(rs) |-> event_to_dict(rs[i])]])

(* The lines to_system_prompt appends for the recent events *)
RecentEventParts(context) ==
    IF context.recent_events = << >> THEN << >>
    ELSE LET shown == Last(context.recent_events, PromptEvents)
         IN  << << >>, <<"#", "#", " ", "R", "e", "c", "e", "n", "t", " ", "E", "v", "e", "n", "t", "s">> >> \o
             [i \in 1..Len(shown) |-> <<"-", " ">> \o Prefix(shown[i].summary, SummaryLimit)]

(* StoryContext.to_system_prompt *)
to_system_prompt(context) ==
    LET config == context.world_config
        head == << <<"Y", "o", "u", " ", "a", "r", "e", " ", "t", "h", "e", " ", "G", "a", "m", "e", " ", "M", "a", "s", "t", "e", "r", " ", "f", "o", "r", " ", "a", "n", " ", "i", "n", "t", "e", "r", "a", "c", "t", "i", "v", "e", " ", "s", "t", "o", "r", "y", " ", "t", "i", "t", "l", "e", "d", " ", "'">> \o context.story_title \o <<"'", ".">>,
                   << >>,
                   <<"#", "#", " ", "W", "o", "r", "l", "d", " ", "S", "e", "t", "t", "i", "n", "g">> >>
        setting == IF NonEmpty(config.setting)
                   THEN << <<"S", "e", "t", "t", "i", "n", "g", ":", " ">> \o config.setting[1] >> ELSE << >>
        themes == IF NonEmpty(config.themes)
                  THEN << <<"T", "h", "e", "m", "e", "s", ":", " ">> \o JoinWith(config.themes[1], <<",", " ">>, 1) >>
                  ELSE << >>
        tone == IF NonEmpty(config.tone)
                THEN << <<"T", "o", "n", "e", ":", " ">> \o config.tone[1] >> ELSE << >>
        scene == << << >>, <<"#", "#", " ", "C", "u", "r", "r", "e", "n", "t", " ", "S", "c", "e", "n", "e">>, context.current_scene, << >>, <<"#", "#", " ", "A", "c", "t", "i", "v", "e", " ", "C", "h", "a", "r", "a", "c", "t", "e", "r", "s">> >>
        chars == [i \in 1..Len(context.active_characters) |->
                    <<"-", " ">> \o context.active_characters[i].name \o
                    (IF NonEmpty(context.active_characters[i].title)
                     THEN <<",", " ">> \o context.active_characters[i].title[1]
                     ELSE << >>)]
    IN  JoinWith(head \o setting \o themes \o tone \o scene \o chars \o
                 RecentEventParts(context), <<"\n">>, 1)

(* perform_action up to the generation call: SELECT the session (404, 400), *)
(* SELECT the caller's SessionPlayer row (403), construct the StoryEngine   *)
(* and assemble the context.  Without a provider, or without a context,     *)
(* process_player_action raises ValueError and the handler goes on in its   *)
(* except ValueError branch.                                                *)
(* The Session object read here stays in the request's identity map: the    *)
(* later SELECT of process_player_action does not refresh its counters.     *)
ActionBegin(t, u, s, a) ==
    /\ Ready
    /\ FreeSlot(t)
    /\ IF ~Live(s) THEN Reply("action", u, s, 404) /\ UNCHANGED tasks
       ELSE IF sess[s].status # "active" THEN Reply("action", u, s, 400) /\ UNCHANGED tasks
       ELSE IF Len(Membership(s, u)) = 0 THEN Reply("action", u, s, 403) /\ UNCHANGED tasks
       ELSE IF Len(Membership(s, u)) > 1 THEN Reply("action", u, s, 500) /\ UNCHANGED tasks
       ELSE /\ tasks' = [tasks EXCEPT ![t] =
                    [op |-> "action", user |-> u, sid |-> s,
                     pc |-> IF /\ ai_provider
                               /\ \E rows \in SelectRecentEvents(s) :
                                      get_session_context(s, rows) # None
                            THEN "generate" ELSE "fallback",
                     turn_count |-> sess[s].turn_count,
                     event_count |-> sess[s].event_count,
                     action |-> a, story_id |-> sess[s].story_id]]
            /\ UNCHANGED resp
    /\ UNCHANGED <<db, now, ai_provider, stories, provider>>

perform_action(t, u, s, a) == ActionBegin(t, u, s, a)

(* StoryEngine.process_player_action from the return of the generation call *)
(* to its commit.  A failed generation raises out of the handler and get_db *)
(* rolls back.  When the session row is gone the SELECT returns None, the   *)
(* counters are skipped and the two INSERTs fail where foreign keys are     *)
(* enforced and leave rows of a deleted session where they are not.         *)
process_player_action(t, outcome, fk_enforced) ==
    /\ Ready
    /\ tasks[t].pc = "generate"
    /\ tasks[t].op = "action"
    /\ LET s == tasks[t].sid
           u == tasks[t].user
           result == outcome[1]
           narration == Some(TextOr(result.narration, result.content))
           added == TurnEvents(s, u, tasks[t].action, result, now)
       IN  IF outcome = None
           THEN /\ Reply("action", u, s, 500)
                /\ UNCHANGED <<sess, events, now>>
           ELSE /\ now < MaxTime
                /\ IF Live(s)
                   THEN /\ events' = events \o added
                        /\ sess' = [sess EXCEPT ![s] = TurnCounters(@, tasks[t], now)]
                        /\ now' = now + 1
                        /\ ReplyNarrative(u, s, narration)
                   ELSE IF fk_enforced
                   THEN /\ Reply("action", u, s, 500)
                        /\ UNCHANGED <<sess, events, now>>
                   ELSE /\ events' = events \o added
                        /\ now' = now + 1
                        /\ ReplyNarrative(u, s, narration)
                        /\ UNCHANGED sess
    /\ tasks' = [tasks EXCEPT ![t] = IdleTask]
    /\ UNCHANGED <<players, ai_provider, stories, provider>>

(* The except ValueError branch of perform_action up to its commit.  The    *)
(* UPDATE of a deleted session matches no row and the request fails.        *)
ActionFallback(t) ==
    /\ Ready
    /\ tasks[t].pc = "fallback"
    /\ tasks[t].op = "action"
    /\ now < MaxTime
    /\ LET s == tasks[t].sid
           u == tasks[t].user
       IN  IF Live(s)
           THEN /\ events' = events \o FallbackEvents(s, u, tasks[t].action, now)
                /\ sess' = [sess EXCEPT ![s] = FallbackCounters(@, tasks[t], now)]
                /\ now' = now + 1
                /\ ReplyNarrative(u, s, Some(PlaceholderNarrative(tasks[t].action)))
           ELSE /\ Reply("action", u, s, 500)
                /\ UNCHANGED <<sess, events, now>>
    /\ tasks' = [tasks EXCEPT ![t] = IdleTask]
    /\ UNCHANGED <<players, ai_provider, stories, provider>>

(* StoryEngine.start_story up to the generation call.  The flushed session  *)
(* row stays private to the caller's transaction until the commit.          *)
StartStoryBegin(t, u, s, st) ==
    /\ Ready
    /\ FreeSlot(t)
    /\ FreshId(s)
    /\ IF ~ai_provider \/ stories[st] # "live"
       THEN Reply("start_story", u, s, 500) /\ UNCHANGED tasks
       ELSE /\ tasks' = [tasks EXCEPT ![t] =
                    [IdleTask EXCEPT !.op = "start_story", !.user = u, !.sid = s,
                                     !.story_id = st, !.pc = "generate"]]
            /\ UNCHANGED resp
    /\ UNCHANGED <<db, now, ai_provider, stories, provider>>

(* OpeningState without the cut at SceneLimit *)
OpeningState_NoTruncation(result) ==
    [scene |-> Some(TextOr(result.narration, result.content)),
     started |-> TRUE]

(* The current_state start_story assigns: the scene is the parsed narration *)
(* or, without one, the first SceneLimit characters of the content          *)
OpeningState(result) ==
    [scene |-> Some(TextOr(result.narration,
                           SubSeq(result.content, 1,
                                  IF Len(result.content) < SceneLimit
                                  THEN Len(result.content) ELSE SceneLimit))),
     started |-> TRUE]

(* The session row start_story has flushed before the generation call *)
FlushedSession(t) ==
    [state |-> "live", story_id |-> tasks[t].story_id, status |-> "active",
     host_id |-> tasks[t].user, max_players |-> DefaultMaxPlayers,
     turn_count |-> DefaultCount, event_count |-> DefaultCount,
     started_at |-> NULL, ended_at |-> NULL, last_activity_at |-> now,
     current_state |-> EmptyState]

(* get_db that commits what was flushed when the handler raises *)
rollback_CommitsFlushed(before, flushed) == flushed

(* get_db on an exception: session.rollback() undoes what the request has   *)
(* flushed, the rows are as they were before                                *)
rollback(before, flushed) == before

(* StoryEngine.start_story from the return of the generation call *)
start_story(t, outcome) ==
    /\ Ready
    /\ tasks[t].pc = "generate"
    /\ tasks[t].op = "start_story"
    /\ LET s == tasks[t].sid
           u == tasks[t].user
           result == outcome[1]
       IN  IF outcome = None
           THEN /\ Reply("start_story", u, s, 500)
                /\ sess' = [sess EXCEPT ![s] = rollback(@, FlushedSession(t))]
                /\ UNCHANGED <<events, now>>
           ELSE /\ now < MaxTime
                /\ sess' = [sess EXCEPT ![s] =
                      [state |-> "live", story_id |-> tasks[t].story_id,
                       status |-> "active", host_id |-> u,
                       max_players |-> DefaultMaxPlayers, turn_count |-> 1,
                       event_count |-> 1, started_at |-> now, ended_at |-> NULL,
                       last_activity_at |-> now,
                       current_state |-> OpeningState(result)]]
                /\ events' = Append(events,
                      StoryEvent([session_id |-> s, event_type |-> "narration",
                                  content |-> result.content,
                                  is_ai_generated |-> TRUE,
                                  ai_model |-> result.model,
                                  tokens_used |-> result.tokens_used], now))
                /\ now' = now + 1
                /\ Reply("start_story", u, s, 200)
    /\ tasks' = [tasks EXCEPT ![t] = IdleTask]
    /\ UNCHANGED <<players, ai_provider, stories, provider>>

(* The response goes out: the handler has returned.  It goes out before the *)
(* next handler step is taken (Ready): the response is fixed when the        *)
(* handler finishes, so no behaviour of the tables is lost.                  *)
Return ==
    /\ resp # NoResp
    /\ resp' = NoResp
    /\ UNCHANGED <<db, tasks, now, ai_provider, stories, provider>>

Next ==
    \/ \E u \in Hosts, s \in SessionIds, st \in StoryIds, mp \in 1..MaxPlayersInput :
            create_session(u, s, st, mp)
    \/ \E t \in Tasks, u \in Users, s \in SessionIds : start_session(t, u, s)
    \/ \E t \in Tasks, u \in Users, s \in SessionIds : pause_session(t, u, s)
    \/ \E t \in Tasks, u \in Users, s \in SessionIds : resume_session(t, u, s)
    \/ \E t \in Tasks, u \in Users, s \in SessionIds : end_session(t, u, s)
    \/ \E t \in Tasks : LifecycleCommit(t)
    \/ \E u \in Users, s \in SessionIds, mp \in {Unset} \cup 1..MaxPlayersInput,
          st \in UpdateStatusInput :
            update_session(u, s, mp, st)
    \/ \E u \in Users, s \in SessionIds : delete_session(u, s)
    \/ \E u \in Users, st \in StoryIds, fk_enforced \in BOOLEAN :
            delete_story(u, st, fk_enforced)
    \/ \E t \in Tasks, u \in Users, s \in SessionIds : join_session(t, u, s)
    \/ \E t \in Tasks : JoinCommit(t)
    \/ \E u \in Users, s \in SessionIds : leave_session(u, s)
    \/ \E t \in Tasks, u \in Users, s \in SessionIds, a \in ActionTexts :
            perform_action(t, u, s, a)
    \/ \E t \in Tasks, outcome \in TurnOutcomes, fk_enforced \in BOOLEAN :
            process_player_action(t, outcome, fk_enforced)
    \/ \E t \in Tasks : ActionFallback(t)
    \/ \E t \in Tasks, u \in Hosts, s \in SessionIds, st \in StoryIds :
            StartStoryBegin(t, u, s, st)
    \/ \E t \in Tasks, outcome \in OpeningOutcomes : start_story(t, outcome)
    \/ Return

Spec == Init /\ [][Next]_vars

(* The StoryEngine on its own, with every kind of answer of the backend:    *)
(* sessions are opened by start_story, users join them and submit actions,  *)
(* and the author may delete the story.                                     *)
NextEngine ==
    \/ \E t \in Tasks, u \in Hosts, s \in SessionIds, st \in StoryIds :
            StartStoryBegin(t, u, s, st)
    \/ \E t \in Tasks, outcome \in AllOpeningOutcomes : start_story(t, outcome)
    \/ \E t \in Tasks, u \in Users, s \in SessionIds : join_session(t, u, s)
    \/ \E t \in Tasks : JoinCommit(t)
    \/ \E t \in Tasks, u \in Users, s \in SessionIds, a \in ActionTexts :
            perform_action(t, u, s, a)
    \/ \E t \in Tasks, outcome \in AllTurnOutcomes, fk_enforced \in BOOLEAN :
            process_player_action(t, outcome, fk_enforced)
    \/ \E t \in Tasks : ActionFallback(t)
    \/ \E u \in Users, st \in StoryIds, fk_enforced \in BOOLEAN :
            delete_story(u, st, fk_enforced)
    \/ Return

SpecEngine == Init /\ [][NextEngine]_vars

----------------------------------------------------------------------------
(* The provider on its own: generate applied to the answers of the backend  *)

Alphabet == {"a", " ", ":", "\"", "[", "]", "-", "*"}

(* Every line of at most MaxLineLen characters *)
ShortLines == UNION {[1..k -> Alphabet] : k \in 0..MaxLineLen}

SampleLines ==
    { <<"[", "A", "t", "t", "a", "c", "k", "]">>,
      <<"-", " ", "F", "l", "e", "e">>,
      <<"G", "a", "n", "d", "a", "l", "f", ":", " ", "\"", "R", "u", "n", "!", "\"">>,
      <<"T", "h", "e", " ", "s", "k", "y", " ", "d", "a", "r", "k", "e", "n", "s", ".">>,
      <<"[", "G", "o", ":", " ", "n", "o", "r", "t", "h", "]">>,
      <<"*", " ", "H", "i", "d", "e", ":", " ", "n", "o", "w">>,
      << >> }

(* lines joined by "\n" *)
RECURSIVE Unlines(_, _)
Unlines(lines, i) ==
    IF i > Len(lines) THEN << >>
    ELSE IF i = Len(lines) THEN lines[i]
    ELSE lines[i] \o <<"\n">> \o Unlines(lines, i + 1)

(* Every text of at most MaxLines sample lines *)
SampleTexts == {Unlines(ls, 1) : ls \in UNION {[1..k -> SampleLines] : k \in 1..MaxLines}}

(* Lines with a speaker segment around SpeakerLimit characters *)
LongSpeakerLines ==
    { Repeat("a", n) \o pad \o <<":", " ", "b">> :
        n \in {SpeakerLimit - 1, SpeakerLimit, SpeakerLimit + 1}, pad \in {<< >>, <<" ">>} }
    \cup { <<"N", "o", "t", "e", ":", " ", "c", "h", "e", "c", "k", " ", "t", "h", "e", " ", "m", "a", "p">> }

GeneratedTexts == ShortLines \cup SampleTexts \cup LongSpeakerLines

InitProvider ==
    /\ sess = [s \in SessionIds |-> AbsentRow]
    /\ players = << >>
    /\ events = << >>
    /\ tasks = [t \in Tasks |-> IdleTask]
    /\ now = 1
    /\ ai_provider = TRUE
    /\ resp = NoResp
    /\ stories = [st \in StoryIds |-> "live"]
    /\ completion \in [content : {None} \cup {Some(c) : c \in GeneratedTexts},
                     total_tokens : {1}]
    /\ generated = None

(* OpenAIProvider.generate returns *)
GenerateReturns ==
    /\ generated = None
    /\ generated' = Some(generate(completion))
    /\ UNCHANGED <<db, tasks, now, ai_provider, resp, stories, completion>>

NextProvider == GenerateReturns

SpecProvider == InitProvider /\ [][NextProvider]_vars

----------------------------------------------------------------------------
(* Claims *)

ActionEventsOf(s) == SelectSeq(EventsOf(s), LAMBDA e : e.event_type = "action")

GeneratingFor(s) ==
    {t \in Tasks : tasks[t].op = "action" /\ tasks[t].sid = s /\ tasks[t].pc = "generate"}

(* The narration start_story opens a session with counts as turn 1 *)
OpeningTurns(s) ==
    IF EventsOf(s) # << >> /\ EventsOf(s)[1].event_type = "narration" THEN 1 ELSE 0

(* C1: in every reachable state each existing session's event_count equals  *)
(* the number of persisted StoryEvents of that session.                     *)
C1_EventCountMatchesEvents ==
    \A s \in SessionIds : Live(s) => sess[s].event_count = Len(EventsOf(s))

(* C2: action submissions for one session are serialized: at most one turn  *)
(* generation per session is in flight, and no turn_count increment is      *)
(* lost (turn_count is the number of submissions that succeeded, plus the   *)
(* opening turn of start_story).                                            *)
C2_ActionsSerialized ==
    \A s \in SessionIds :
        /\ Cardinality(GeneratingFor(s)) <= 1
        /\ Live(s) => sess[s].turn_count = Len(ActionEventsOf(s)) + OpeningTurns(s)

(* A step in which process_player_action of task t commits a turn *)
TurnCommitted(t) ==
    /\ tasks[t].op = "action"
    /\ tasks[t].pc = "generate"
    /\ Live(tasks[t].sid)
    /\ resp'.op = "action"
    /\ resp'.code = 200

(* C3: every successful processPlayerAction increases turn_count by 1 and   *)
(* event_count by 2 and appends exactly two events: the player's action     *)
(* (not AI generated), then the narration (AI generated), the action        *)
(* strictly before the narration in creation-time order.                    *)
C3_TurnAppendsActionThenNarration ==
    [][\A t \in Tasks : TurnCommitted(t) =>
        LET s == tasks[t].sid
            n == Len(events)
        IN  /\ sess'[s].turn_count = sess[s].turn_count + 1
            /\ sess'[s].event_count = sess[s].event_count + 2
            /\ Len(events') = n + 2
            /\ SubSeq(events', 1, n) = events
            /\ events'[n + 1].session_id = s
            /\ events'[n + 1].event_type = "action"
            /\ events'[n + 1].player_id = tasks[t].user
            /\ ~events'[n + 1].is_ai_generated
            /\ events'[n + 2].session_id = s
            /\ events'[n + 2].event_type = "narration"
            /\ events'[n + 2].is_ai_generated
            /\ events'[n + 1].created_at < events'[n + 2].created_at]_vars

(* C4: turn_count and event_count of a session never decrease and are never *)
(* negative, along any interleaving of requests.                            *)
C4_CountersMonotonic ==
    [][\A s \in SessionIds : (Live(s) /\ sess'[s].state = "live") =>
        /\ sess'[s].turn_count >= sess[s].turn_count
        /\ sess'[s].event_count >= sess[s].event_count
        /\ sess'[s].turn_count >= 0
        /\ sess'[s].event_count >= 0]_vars

LifecycleGraph ==
    {<<"waiting", "active">>, <<"active", "paused">>, <<"paused", "active">>,
     <<"active", "completed">>, <<"paused", "completed">>, <<"completed", "archived">>}

(* C5: the status of a session changes only along the lifecycle graph       *)
(* waiting -> active, active <-> paused, active/paused -> completed,        *)
(* completed -> archived, whatever requests are made and however they       *)
(* interleave.                                                              *)
C5_StatusFollowsLifecycleGraph ==
    [][\A s \in SessionIds :
        (Live(s) /\ sess'[s].state = "live" /\ sess'[s].status # sess[s].status)
            => <<sess[s].status, sess'[s].status>> \in LifecycleGraph]_vars

C6_Forbidden(op) ==
    CASE op = "start"  -> {"active", "paused", "completed", "archived"}
      [] op = "pause"  -> Statuses \ {"active"}
      [] op = "resume" -> Statuses \ {"paused"}
      [] op = "end"    -> {"waiting", "completed", "archived"}

(* C6: a lifecycle request that finds the session in a status that is not   *)
(* the source of its transition (start: anything but waiting; pause:        *)
(* anything but active; resume: anything but paused; end: waiting,          *)
(* completed, archived) is answered with an error and changes no row and    *)
(* starts no work.                                                          *)
C6_IllegalTransitionRejected ==
    [][\A t \in Tasks, u \in Users, s \in SessionIds, op \in LifecycleOps :
        (LifecycleBegin(t, u, s, op) /\ Live(s) /\ sess[s].status \in C6_Forbidden(op))
            => /\ resp' = [op |-> op, user |-> u, sid |-> s,
                           code |-> IF sess[s].host_id = u THEN 400 ELSE 403,
                           narrative |-> None]
               /\ db' = db
               /\ tasks' = tasks]_vars

(* C6 witness: the host's start of a paused session has been refused *)
C6_Witness ==
    /\ resp.op = "start"
    /\ resp.user = "u1"
    /\ resp.code = 400
    /\ sess["s1"].status = "paused"
    /\ sess["s1"].started_at # NULL

(* C7: started_at and ended_at are set once: a value that is set is never   *)
(* overwritten or cleared, by a later request or by a concurrent duplicate  *)
(* of the same transition.                                                  *)
C7_TimestampsSetOnce ==
    [][\A s \in SessionIds : (Live(s) /\ sess'[s].state = "live") =>
        /\ sess[s].started_at # NULL => sess'[s].started_at = sess[s].started_at
        /\ sess[s].ended_at # NULL => sess'[s].ended_at = sess[s].ended_at]_vars

(* C8: a join request passes the checks of join_session exactly when the    *)
(* session it reads is waiting or active, has fewer SessionPlayer rows than *)
(* max_players and holds no row of the caller; otherwise it is answered     *)
(* with an error, and the membership is unchanged and no work is started.   *)
C8_JoinGuard ==
    [][\A t \in Tasks, u \in Users, s \in SessionIds :
        (JoinBegin(t, u, s) /\ Live(s)) =>
            IF /\ sess[s].status \in {"waiting", "active"}
               /\ Len(PlayersOf(s)) < sess[s].max_players
               /\ Len(Membership(s, u)) = 0
            THEN /\ tasks'[t].op = "join"
                 /\ tasks'[t].pc = "commit"
                 /\ resp' = NoResp
            ELSE /\ resp'.op = "join"
                 /\ resp'.code >= 400
                 /\ players' = players
                 /\ tasks' = tasks]_vars

(* C8 witness: a join by a user with no row in a waiting or active session  *)
(* whose rows have reached max_players has been refused                     *)
C8_Witness ==
    /\ resp.op = "join"
    /\ resp.user = "u2"
    /\ resp.code = 400
    /\ sess["s1"].status \in {"waiting", "active"}
    /\ Len(PlayersOf("s1")) = sess["s1"].max_players
    /\ Len(Membership("s1", "u2")) = 0

(* A participant of the session who has not left it *)
CurrentMember(s, u) ==
    \E i \in 1..Len(players) :
        /\ players[i].session_id = s
        /\ players[i].user_id = u
        /\ players[i].left_at = NULL

(* C9: an action submitted to a session that does not exist, is not active  *)
(* or of which the submitter is not a current member is rejected before any *)
(* generation call, with no side effect.                                    *)
C9_UnauthorizedActionRejected ==
    [][\A t \in Tasks, u \in Users, s \in SessionIds, a \in ActionTexts :
        (ActionBegin(t, u, s, a)
            /\ (~Live(s) \/ sess[s].status # "active" \/ ~CurrentMember(s, u)))
            => /\ resp'.op = "action"
               /\ resp'.code \in {400, 403, 404}
               /\ db' = db
               /\ tasks' = tasks]_vars

(* C10: the four mutations of a turn (the action event, the narration       *)
(* event, turn_count + 1 and event_count + 2, a new last_activity_at) are   *)
(* persisted together or not at all, whatever the outcome of                *)
(* processPlayerAction.                                                     *)
C10_TurnAllOrNothing ==
    [][\A t \in Tasks :
        (tasks[t].op = "action" /\ tasks[t].pc = "generate" /\ tasks'[t].pc = "idle") =>
            LET s == tasks[t].sid
                n == Len(events)
            IN  \/ db' = db
                \/ /\ Len(events') = n + 2
                   /\ SubSeq(events', 1, n) = events
                   /\ events'[n + 1].event_type = "action"
                   /\ events'[n + 2].event_type = "narration"
                   /\ sess'[s].turn_count = sess[s].turn_count + 1
                   /\ sess'[s].event_count = sess[s].event_count + 2
                   /\ sess'[s].last_activity_at # sess[s].last_activity_at]_vars

(* A non-empty text is present *)
NonEmptyText(opt) == opt # None /\ opt[1] # << >>

(* C11: in degraded mode (no generation adapter configured) an action by a  *)
(* member of an active session persists exactly one action event and no     *)
(* AI-generated event, increments turn_count by 1 and event_count by 1, and *)
(* returns a non-empty placeholder narrative.                               *)
C11_DegradedModeRecordsOneAction ==
    [][\A t \in Tasks :
        (~ai_provider /\ tasks[t].op = "action" /\ tasks[t].pc = "fallback"
            /\ tasks'[t].pc = "idle" /\ resp'.code = 200) =>
            LET s == tasks[t].sid
                n == Len(events)
            IN  /\ Len(events') = n + 1
                /\ SubSeq(events', 1, n) = events
                /\ events'[n + 1].session_id = s
                /\ events'[n + 1].event_type = "action"
                /\ events'[n + 1].player_id = tasks[t].user
                /\ ~events'[n + 1].is_ai_generated
                /\ sess'[s].turn_count = sess[s].turn_count + 1
                /\ sess'[s].event_count = sess[s].event_count + 1
                /\ NonEmptyText(resp'.narrative)]_vars

(* C12: the degraded-mode fallback is taken only when no generation adapter *)
(* is configured: with an adapter configured, no action submission (in      *)
(* particular none whose context assembly failed) records an event or       *)
(* changes a counter through the fallback.                                  *)
C12_FallbackOnlyWithoutProvider ==
    [][\A t \in Tasks :
        (tasks[t].op = "action" /\ tasks[t].pc = "fallback" /\ tasks'[t].pc = "idle"
            /\ db' # db) => ~ai_provider]_vars

(* The participant's only row in the session has left_at set *)
HasLeft(s, u) ==
    /\ Len(Membership(s, u)) = 1
    /\ Membership(s, u)[1].left_at # NULL

(* C13: after a participant has left a session, every action that          *)
(* participant submits to it is rejected as not a member: no work is        *)
(* started and no event is added.                                           *)
C13_LeftMemberCannotAct ==
    [][\A t \in Tasks, u \in Users, s \in SessionIds, a \in ActionTexts :
        (ActionBegin(t, u, s, a) /\ Live(s) /\ sess[s].status = "active" /\ HasLeft(s, u))
            => /\ resp'.op = "action"
               /\ resp'.code = 403
               /\ tasks' = tasks
               /\ events' = events]_vars

(* What the parser makes of a narration event's content *)
ParsedMetadata(content) ==
    LET p == parse_response(content)
    IN  Some([narration |-> p.narration, dialogue |-> p.dialogue, actions |-> p.actions])

(* C14: the narration event a successful processPlayerAction persists       *)
(* carries the generating model id, the token usage and, as event_metadata, *)
(* the {narration, dialogue, actions} the parser produced for that turn's   *)
(* generated text.                                                          *)
C14_NarrationCarriesMetadata ==
    [][\A t \in Tasks : TurnCommitted(t) =>
        LET e == events'[Len(events) + 2]
        IN  /\ e.event_type = "narration"
            /\ e.ai_model = DefaultModel
            /\ \E r \in AllTurnResponses :
                    generate(r).content = e.content /\ e.tokens_used = r.total_tokens
            /\ e.event_metadata = ParsedMetadata(e.content)]_vars

(* A step in which start_story of task t commits *)
StoryStarted(t) ==
    /\ tasks[t].op = "start_story"
    /\ tasks[t].pc = "generate"
    /\ resp'.op = "start_story"
    /\ resp'.code = 200

(* C15: a successful startStory creates a new session directly in status    *)
(* active, persists exactly one StoryEvent for it, a narration, sets        *)
(* turn_count = 1 and event_count = 1, and sets current_state.scene to the  *)
(* parsed narration or, when there is none, to the first 500 characters of  *)
(* the generated content.                                                   *)
C15_StartStoryOpensActiveSession ==
    [][\A t \in Tasks : StoryStarted(t) =>
        LET s == tasks[t].sid
            n == Len(events)
            e == events'[n + 1]
            narration == parse_response(e.content).narration
            mine == SelectSeq(events', LAMBDA x : x.session_id = s)
        IN  /\ sess[s].state = "absent"
            /\ sess'[s].state = "live"
            /\ sess'[s].status = "active"
            /\ sess'[s].turn_count = 1
            /\ sess'[s].event_count = 1
            /\ Len(events') = n + 1
            /\ SubSeq(events', 1, n) = events
            /\ mine = <<e>>
            /\ e.event_type = "narration"
            /\ sess'[s].current_state.scene =
                   IF narration # None THEN narration
                   ELSE Some([i \in 1..(IF Len(e.content) < 500 THEN Len(e.content) ELSE 500)
                                |-> e.content[i]])]_vars

(* C15 witness: start_story has opened a session on a generated text of     *)
(* more than 500 characters without narration: the scene is its first 500   *)
(* characters                                                               *)
C15_Witness ==
    /\ resp.op = "start_story"
    /\ resp.code = 200
    /\ sess["s1"].status = "active"
    /\ Len(events) = 1
    /\ Len(events[1].content) > 500
    /\ parse_response(events[1].content).narration = None
    /\ Len(sess["s1"].current_state.scene[1]) = 500

(* C16: a generation call that times out, fails or returns no content is a  *)
(* failed turn: no narration event with empty content is persisted and no   *)
(* action submission is answered as a success with an empty narrative.      *)
C16_NoEmptyNarration ==
    /\ \A i \in 1..Len(events) :
          events[i].event_type = "narration" => events[i].content # << >>
    /\ (resp.op = "action" /\ resp.code = 200) => NonEmptyText(resp.narrative)

GivenText == IF completion.content = None THEN << >> ELSE completion.content[1]

GivenLines == [i \in 1..Len(SplitLines(GivenText)) |-> Strip(SplitLines(GivenText)[i])]

GivenLine == GivenLines[1]

(* The kinds of line the parser's rules speak of *)
BracketContent(line) == Strip(SubSeq(line, 2, Len(line) - 1))

BracketedAction(line) == IsBracketed(line) /\ BracketContent(line) # << >>

BulletContent(line) == SubSeq(line, 3, Len(line))

SpeakerOf(line) == Strip(SplitOnce(line, ":")[1])

RemainderOf(line) == SplitOnce(line, ":")[2]

SpokenText(line) == StripChars(Strip(RemainderOf(line)), {"\""})

ColonLine(line) ==
    /\ line # << >>
    /\ ~IsBracketed(line)
    /\ ~IsBullet(line)
    /\ Contains(line, ":")
    /\ line[1] # "\""

WellFormedDialogue(line) ==
    /\ SpeakerOf(line) # << >>
    /\ Len(SpeakerOf(line)) < 50
    /\ RemainderOf(line) # << >>

PlainSentence(line) ==
    /\ line # << >>
    /\ ~IsBracketed(line)
    /\ ~IsBullet(line)
    /\ ~Contains(line, ":")

(* C18: for a generated text whose lines are, in this order, a bracketed    *)
(* action, a bullet line, a dialogue line and a plain sentence, the parser  *)
(* returns actions = [bracket content, bullet content], dialogue = [the     *)
(* speaker with the text without its quotes] and narration = the sentence.  *)
C18_MixedInputKeepsOrder ==
    (/\ generated # None
     /\ Len(GivenLines) = 4
     /\ BracketedAction(GivenLines[1])
     /\ IsBullet(GivenLines[2])
     /\ ColonLine(GivenLines[3]) /\ WellFormedDialogue(GivenLines[3])
     /\ PlainSentence(GivenLines[4]))
        => /\ generated[1].actions =
                Some(<<BracketContent(GivenLines[1]), BulletContent(GivenLines[2])>>)
           /\ generated[1].dialogue =
                Some(<<[speaker |-> SpeakerOf(GivenLines[3]),
                        text |-> SpokenText(GivenLines[3])]>>)
           /\ generated[1].narration = Some(GivenLines[4])

(* C19: a line of the form [...] is an action (brackets stripped) and a     *)
(* line starting with "- " or "* " is an action (marker stripped), also     *)
(* when the line contains a colon: neither is ever dialogue.                *)
C19_BracketAndBulletBeforeDialogue ==
    (generated # None /\ Len(GivenLines) = 1) =>
        /\ BracketedAction(GivenLine) =>
              /\ generated[1].actions = Some(<<BracketContent(GivenLine)>>)
              /\ generated[1].dialogue = None
        /\ IsBullet(GivenLine) =>
              /\ generated[1].actions = Some(<<BulletContent(GivenLine)>>)
              /\ generated[1].dialogue = None

(* C20: a line that is neither bracketed nor a bullet, contains a colon and *)
(* does not start with a quote is dialogue exactly when the split at its    *)
(* first colon gives a non-empty trimmed speaker of fewer than 50           *)
(* characters and a non-empty remainder; otherwise the whole line is        *)
(* narration.                                                               *)
C20_ColonLineDialogueOrNarration ==
    (generated # None /\ Len(GivenLines) = 1 /\ ColonLine(GivenLine)) =>
        IF WellFormedDialogue(GivenLine)
        THEN /\ generated[1].dialogue =
                  Some(<<[speaker |-> SpeakerOf(GivenLine),
                          text |-> SpokenText(GivenLine)]>>)
             /\ generated[1].narration = None
             /\ generated[1].actions = None
        ELSE /\ generated[1].dialogue = None
             /\ generated[1].narration = Some(GivenLine)
             /\ generated[1].actions = None

(* C20 witness: a line whose speaker segment has 50 characters has been     *)
(* parsed as narration                                                      *)
C20_Witness ==
    /\ generated # None
    /\ GivenText = [i \in 1..50 |-> "a"] \o <<":", " ", "b">>
    /\ generated[1].narration = Some(GivenText)
    /\ generated[1].dialogue = None

(* The example of the parser's rules: Attack, Flee, Gandalf / Run!, The sky *)
(* darkens.                                                                 *)
ParserExample ==
    (generated # None /\ GivenText = <<"[", "A", "t", "t", "a", "c", "k", "]", "\n", "-", " ", "F", "l", "e", "e", "\n", "G", "a", "n", "d", "a", "l", "f", ":", " ", "\"", "R", "u", "n", "!", "\"", "\n", "T", "h", "e", " ", "s", "k", "y", " ", "d", "a", "r", "k", "e", "n", "s", ".">>)
        => /\ generated[1].actions = Some(<<<<"A", "t", "t", "a", "c", "k">>, <<"F", "l", "e", "e">>>>)
           /\ generated[1].dialogue = Some(<<[speaker |-> <<"G", "a", "n", "d", "a", "l", "f">>, text |-> <<"R", "u", "n", "!">>]>>)
           /\ generated[1].narration = Some(<<"T", "h", "e", " ", "s", "k", "y", " ", "d", "a", "r", "k", "e", "n", "s", ".">>)

(* The stripped lines of the given text that are not blank, by what the     *)
(* rules make of them                                                       *)
DialogueLines == {i \in 1..Len(GivenLines) : GivenLines[i] # << >> /\ IsDialogue(GivenLines[i])}

ActionLines ==
    {i \in 1..Len(GivenLines) :
        /\ GivenLines[i] # << >>
        /\ ~IsDialogue(GivenLines[i])
        /\ \/ BracketedAction(GivenLines[i])
           \/ ~IsBracketed(GivenLines[i]) /\ IsBullet(GivenLines[i])}

NarrationLines ==
    {i \in 1..Len(GivenLines) :
        /\ GivenLines[i] # << >>
        /\ ~IsDialogue(GivenLines[i])
        /\ ~IsBracketed(GivenLines[i])
        /\ ~IsBullet(GivenLines[i])}

EmptyBracket(line) == IsBracketed(line) /\ BracketContent(line) = << >>

(* C21: the parser's result fields are absent exactly when empty: narration *)
(* is None iff no line fell through to narration, dialogue is None iff no   *)
(* line was classified as dialogue, actions is None iff no action was       *)
(* collected, no field is an empty string or list, and a text made of       *)
(* bracketed lines with empty content gives none of the three fields.       *)
C21_FieldsAbsentIffEmpty ==
    generated # None =>
        /\ (generated[1].narration = None) <=> (NarrationLines = {})
        /\ (generated[1].dialogue = None) <=> (DialogueLines = {})
        /\ (generated[1].actions = None) <=> (ActionLines = {})
        /\ generated[1].narration # Some(<< >>)
        /\ generated[1].dialogue # Some(<< >>)
        /\ generated[1].actions # Some(<< >>)
        /\ (\A i \in 1..Len(GivenLines) : EmptyBracket(GivenLines[i])) =>
              /\ generated[1].narration = None
              /\ generated[1].dialogue = None
              /\ generated[1].actions = None

(* C21 witness: the text "[ ]", a bracketed line with only whitespace       *)
(* inside, has been parsed into three absent fields                         *)
C21_Witness ==
    /\ generated # None
    /\ GivenText = <<"[", " ", "]">>
    /\ generated[1].narration = None
    /\ generated[1].dialogue = None
    /\ generated[1].actions = None

(* A session whose context can be assembled: it and its story exist *)
Assemblable(s) == Live(s) /\ stories[sess[s].story_id] = "live"

(* The bundle texts an assembly of the context of s can produce in the      *)
(* current state                                                            *)
BundleTexts(s) ==
    {to_system_prompt(get_session_context(s, rows)[1]) : rows \in SelectRecentEvents(s)}

(* C22: context assembly is deterministic: two assemblies over the same     *)
(* stored session, story, character and event state produce the same bundle *)
(* text, also when several events of the session carry the same creation    *)
(* timestamp.                                                               *)
C22_ContextDeterministic ==
    \A s \in SessionIds : Assemblable(s) => Cardinality(BundleTexts(s)) = 1

(* The lines of a bundle text after its "## Recent Events" heading *)
ListedEvents(text) ==
    LET lines == SplitLines(text)
        at == {k \in 1..Len(lines) : lines[k] = <<"#", "#", " ", "R", "e", "c", "e", "n", "t", " ", "E", "v", "e", "n", "t", "s">>}
    IN  IF at = {} THEN << >>
        ELSE SubSeq(lines, (CHOOSE k \in at : \A j \in at : j <= k) + 1, Len(lines))

(* C23: the bundle built for a session lists the min(5, n) most recently    *)
(* created of the session's n events, oldest first, one line per event,     *)
(* each line holding the first 100 characters of the event's content (at    *)
(* most).                                                                   *)
C23_BundleListsLastFiveEvents ==
    \A s \in SessionIds : Assemblable(s) =>
        \A text \in BundleTexts(s) :
            LET mine == EventsOf(s)
                first == IF Len(mine) > 5 THEN Len(mine) - 4 ELSE 1
                listed == ListedEvents(text)
            IN  /\ Len(listed) = Len(mine) - first + 1
                /\ \A k \in 1..Len(listed) :
                      LET content == mine[first + k - 1].content
                      IN  listed[k] = <<"-", " ">> \o
                              [i \in 1..(IF Len(content) < 100 THEN Len(content) ELSE 100)
                                  |-> content[i]]

(* C24: a session created through create_session starts in status waiting  *)
(* with the requested max_players, turn_count = 0, event_count = 0, no      *)
(* events, started_at and ended_at unset, and exactly one participant: the  *)
(* creating user, with role host.                                           *)
C24_CreatedSessionIsWaiting ==
    [][\A u \in Hosts, s \in SessionIds, st \in StoryIds, mp \in 1..MaxPlayersInput :
        (create_session(u, s, st, mp) /\ resp'.code = 201) =>
            LET mine == SelectSeq(players', LAMBDA p : p.session_id = s)
            IN  /\ sess[s].state = "absent"
                /\ sess'[s].state = "live"
                /\ sess'[s].status = "waiting"
                /\ sess'[s].host_id = u
                /\ sess'[s].max_players = mp
                /\ sess'[s].turn_count = 0
                /\ sess'[s].event_count = 0
                /\ sess'[s].started_at = NULL
                /\ sess'[s].ended_at = NULL
                /\ SelectSeq(events', LAMBDA e : e.session_id = s) = << >>
                /\ Len(mine) = 1
                /\ mine[1].user_id = u
                /\ mine[1].role = "host"
                /\ mine[1].left_at = NULL]_vars

(* C24 witness: create_session has answered 201 for a session of 2 players  *)
(* and the session is waiting with its host as only participant             *)
C24_Witness ==
    /\ resp.op = "create"
    /\ resp.code = 201
    /\ sess["s1"].status = "waiting"
    /\ sess["s1"].max_players = 2
    /\ Len(PlayersOf("s1")) = 1
    /\ PlayersOf("s1")[1].role = "host"

(* C25: only the session's host can update, start, pause, resume, end or    *)
(* delete a session: the same request by any other user, member or not and  *)
(* whatever the session's status, is answered 403 and changes no row and    *)
(* starts no work.                                                          *)
C25_OnlyHostManagesSession ==
    [][\A u \in Users, s \in SessionIds :
        (Live(s) /\ sess[s].host_id # u) =>
            /\ \A t \in Tasks, op \in LifecycleOps :
                  LifecycleBegin(t, u, s, op) =>
                      (resp'.op = op /\ resp'.code = 403 /\ db' = db /\ tasks' = tasks)
            /\ \A mp \in {Unset} \cup 1..MaxPlayersInput, st \in UpdateStatusInput :
                  update_session(u, s, mp, st) =>
                      (resp'.op = "update" /\ resp'.code = 403 /\ db' = db /\ tasks' = tasks)
            /\ delete_session(u, s) =>
                  (resp'.op = "delete" /\ resp'.code = 403 /\ db' = db /\ tasks' = tasks)]_vars

(* C25 witness: a member who is not the host has asked to end a paused      *)
(* session and got 403                                                      *)
C25_Witness ==
    /\ resp.op = "end"
    /\ resp.user = "u2"
    /\ resp.code = 403
    /\ sess["s1"].state = "live"
    /\ sess["s1"].host_id = "u1"
    /\ sess["s1"].status = "paused"
    /\ Len(Membership("s1", "u2")) = 1

(* C26: no StoryEvent is committed to a session whose status is not active  *)
(* at the moment of the commit: a turn whose session was paused or ended    *)
(* while its generation call was in flight appends no event and increments  *)
(* no counter.                                                              *)
C26_NoEventOutsideActive ==
    [][\A s \in SessionIds :
        (Live(s) /\ sess'[s].state = "live" /\ sess[s].status # "active") =>
            /\ SelectSeq(events', LAMBDA e : e.session_id = s) = EventsOf(s)
            /\ sess'[s].turn_count = sess[s].turn_count
            /\ sess'[s].event_count = sess[s].event_count]_vars

(* C27: in every reachable state the number of participant records of a     *)
(* session is at most its max_players, under any interleaving of            *)
(* create_session, join, leave and update_session.                          *)
C27_PlayersWithinCapacity ==
    \A s \in SessionIds : Live(s) => Len(PlayersOf(s)) <= sess[s].max_players

(* The participant records of the session with role host *)
HostRows(s) == SelectSeq(PlayersOf(s), LAMBDA p : p.role = "host")

(* C28: every existing session, created by create_session or by             *)
(* start_story, has exactly one participant record with role host, held by  *)
(* the session's host_id and not marked as left.                            *)
C28_SessionHasHostRecord ==
    \A s \in SessionIds : Live(s) =>
        /\ Len(HostRows(s)) = 1
        /\ HostRows(s)[1].user_id = sess[s].host_id
        /\ HostRows(s)[1].left_at = NULL

(* A step of a handler of one of the given operations: it answers, or it    *)
(* moves a request of that operation                                        *)
StepOf(ops) ==
    \/ resp' # resp /\ resp'.op \in ops
    \/ \E t \in Tasks : tasks'[t] # tasks[t] /\ (tasks[t].op \in ops \/ tasks'[t].op \in ops)

(* C29: lifecycle transitions, join and leave leave turn_count, event_count *)
(* and the StoryEvents unchanged; action submission (normal or degraded)    *)
(* leaves status, started_at, ended_at, max_players, host and membership    *)
(* unchanged and never modifies or removes a persisted StoryEvent.          *)
C29_HandlersKeepTheirFrame ==
    [][/\ StepOf(LifecycleOps \cup {"join", "leave"}) =>
            /\ events' = events
            /\ \A s \in SessionIds :
                  /\ sess'[s].turn_count = sess[s].turn_count
                  /\ sess'[s].event_count = sess[s].event_count
       /\ StepOf({"action"}) =>
            /\ players' = players
            /\ Len(events') >= Len(events)
            /\ SubSeq(events', 1, Len(events)) = events
            /\ \A s \in SessionIds :
                  /\ sess'[s].state = sess[s].state
                  /\ sess'[s].status = sess[s].status
                  /\ sess'[s].started_at = sess[s].started_at
                  /\ sess'[s].ended_at = sess[s].ended_at
                  /\ sess'[s].max_players = sess[s].max_players
                  /\ sess'[s].host_id = sess[s].host_id]_vars

(* C29 witness: a session that has events and counted turns has been paused *)
C29_Witness ==
    /\ resp.op = "pause"
    /\ resp.code = 200
    /\ sess["s1"].status = "paused"
    /\ sess["s1"].turn_count >= 1
    /\ sess["s1"].event_count >= 2
    /\ Len(EventsOf("s1")) >= 2

(* C30: when the generation call of start_story fails nothing of the        *)
(* attempt is persisted: no session row and no StoryEvent exist for it      *)
(* afterwards, and no session opened by start_story is active with          *)
(* turn_count = 0, event_count = 0 and no opening narration event.          *)
C30_FailedStartStoryLeavesNothing ==
    [][/\ \A t \in Tasks :
            (tasks[t].op = "start_story" /\ tasks[t].pc = "generate"
                /\ tasks'[t].pc = "idle" /\ resp'.code # 200) =>
                /\ db' = db
                /\ sess'[tasks[t].sid].state = "absent"
                /\ SelectSeq(events', LAMBDA e : e.session_id = tasks[t].sid) = << >>
       /\ \A s \in SessionIds :
            (sess'[s].state = "live" /\ sess'[s].status = "active") =>
                /\ sess'[s].turn_count >= 1
                /\ sess'[s].event_count >= 1
                /\ \E i \in 1..Len(events') :
                      events'[i].session_id = s /\ events'[i].event_type = "narration"]_vars

(* C30 witness: with a provider configured and the story present,           *)
(* start_story has failed in its generation call and no session and no      *)
(* event exists                                                             *)
C30_Witness ==
    /\ resp.op = "start_story"
    /\ resp.code = 500
    /\ ai_provider
    /\ stories["st1"] = "live"
    /\ sess["s1"].state = "absent"
    /\ events = << >>
====
